---- MODULE Spec2Model ----
(***************************************************************************)
(* Model of the QuantumMind quantum state simulator (lib/quantum-simulator *)
(* in src/unnamed/part_000, lines 371-577) and of the component that      *)
(* drives it (src/components/quantum-circuit-simulator.tsx), followed by   *)
(* the parts of the application around them: AnalyticsSystem.trackEvent    *)
(* and CollaborativeExperimentSystem.submitToChallenge (part_000), the     *)
(* Home page with its LoadingScreen (part_000, loading-screen.tsx) and     *)
(* the submit lock of AIChatInterface (ai-chat-interface.tsx).  Each part  *)
(* has its own variables and its own specification; the variables of the   *)
(* other parts stay at their initial values.                               *)
(*                                                                         *)
(* Numbers.  The source computes with JavaScript numbers.  Every number    *)
(* the built-in gates can produce from small dyadic inputs lies in the     *)
(* ring Z[sqrt 2][1/2], so a number is modelled exactly as the record      *)
(* [a, b, k] standing for (a + b*sqrt(2)) / 2^k, kept in lowest terms so   *)
(* that equal numbers are equal records.  k = -1 is NaN.  Rounding of the  *)
(* 53-bit mantissa is not modelled: equalities below are equalities of     *)
(* real numbers, which the source reproduces up to floating-point drift.   *)
(***************************************************************************)
EXTENDS Integers, Naturals, Sequences, FiniteSets, TLC

\* ------------------------------------------------------------------ bounds
MaxQubits == 2
MaxCalls == 2

\* --------------------------------------------------------------- constants
\* the range of the qubit-count slider and the count the component starts with
MinSliderQubits == 1
MaxSliderQubits == 8
InitialQubits == 3

\* ----------------------------------------------------------- real numbers
RECURSIVE Pow2(_)
Pow2(n) == IF n <= 0 THEN 1 ELSE 2 * Pow2(n - 1)

Abs(n) == IF n < 0 THEN -n ELSE n

RECURSIVE IsPow2(_)
IsPow2(n) == IF n <= 0 THEN FALSE
             ELSE IF n = 1 THEN TRUE
             ELSE IF n % 2 = 1 THEN FALSE
             ELSE IsPow2(n \div 2)

RECURSIVE Log2(_)
Log2(n) == IF n <= 1 THEN 0 ELSE 1 + Log2(n \div 2)

NaN == [a |-> 0, b |-> 0, k |-> -1]

IsNaN(x) == x.k = -1

\* lowest terms of (a + b*sqrt 2) / 2^k
RECURSIVE Num(_, _, _)
Num(a, b, k) == IF a = 0 /\ b = 0 THEN [a |-> 0, b |-> 0, k |-> 0]
                ELSE IF k > 0 /\ a % 2 = 0 /\ b % 2 = 0 THEN Num(a \div 2, b \div 2, k - 1)
                ELSE IF k < 0 THEN Num(2 * a, 2 * b, k + 1)
                ELSE [a |-> a, b |-> b, k |-> k]

Zero == Num(0, 0, 0)
One == Num(1, 0, 0)
MinusOne == Num(-1, 0, 0)
Two == Num(2, 0, 0)
Half == Num(1, 0, 1)

\* sign of a + b*sqrt 2 : -1, 0 or 1
SignAB(a, b) == IF a = 0 /\ b = 0 THEN 0
                ELSE IF a >= 0 /\ b >= 0 THEN 1
                ELSE IF a <= 0 /\ b <= 0 THEN -1
                ELSE IF a > 0 THEN (IF a * a > 2 * b * b THEN 1 ELSE -1)
                ELSE (IF 2 * b * b > a * a THEN 1 ELSE -1)

Sign(x) == SignAB(x.a, x.b)

RAdd(x, y) == IF IsNaN(x) \/ IsNaN(y) THEN NaN
              ELSE IF x.a = 0 /\ x.b = 0 THEN y
              ELSE IF y.a = 0 /\ y.b = 0 THEN x
              ELSE IF x.k = y.k THEN Num(x.a + y.a, x.b + y.b, x.k)
              ELSE LET K == IF x.k > y.k THEN x.k ELSE y.k
                   IN Num(x.a * Pow2(K - x.k) + y.a * Pow2(K - y.k),
                          x.b * Pow2(K - x.k) + y.b * Pow2(K - y.k), K)

\* the negative of a number in lowest terms is in lowest terms
RNeg(x) == IF IsNaN(x) THEN NaN
           ELSE IF x.k >= 0 THEN [a |-> -x.a, b |-> -x.b, k |-> x.k]
           ELSE Num(-x.a, -x.b, x.k)

RSub(x, y) == RAdd(x, RNeg(y))

\* the products with 0 and 1 are written out; the general formula gives the
\* same records
RMul(x, y) == IF IsNaN(x) \/ IsNaN(y) THEN NaN
              ELSE IF x = Zero \/ y = Zero THEN Zero
              ELSE IF x = One /\ y.k >= 0 THEN y
              ELSE IF y = One /\ x.k >= 0 THEN x
              ELSE Num(x.a * y.a + 2 * x.b * y.b, x.a * y.b + x.b * y.a, x.k + y.k)

\* x < y ; any comparison with NaN is false
RLess(x, y) == IF IsNaN(x) \/ IsNaN(y) THEN FALSE ELSE Sign(RSub(x, y)) < 0

\* x / y.  0/0 is NaN.  1/y = 2^k (a - b*sqrt 2) / (a^2 - 2 b^2), which lies
\* in the ring when the integer a^2 - 2 b^2 is plus or minus a power of two.
RDiv(x, y) == IF IsNaN(x) \/ IsNaN(y) THEN NaN
              ELSE IF Sign(y) = 0
                   THEN (IF Sign(x) = 0 THEN NaN
                         ELSE CHOOSE inf \in {} : TRUE)
              ELSE LET N == y.a * y.a - 2 * y.b * y.b
                       m == Log2(Abs(N))
                       s == IF N < 0 THEN -1 ELSE 1
                       inv == IF IsPow2(Abs(N))
                              THEN Num(s * y.a * Pow2(y.k), -s * y.b * Pow2(y.k), m)
                              ELSE CHOOSE r \in {} : TRUE
                   IN RMul(x, inv)

\* Math.sqrt: NaN for NaN and negatives, else the non-negative root.
\* x = (a + b*sqrt 2)/2^k in lowest terms has a root (c + d*sqrt 2)/2^j only
\* with j = (k+1) div 2, c^2 + 2 d^2 = a*2^(2j-k) and 2cd = b*2^(2j-k).
RSqrt(x) == IF IsNaN(x) \/ Sign(x) < 0 THEN NaN
            ELSE IF Sign(x) = 0 THEN Zero
            ELSE LET j == (x.k + 1) \div 2
                     A == x.a * Pow2(2 * j - x.k)
                     B == x.b * Pow2(2 * j - x.k)
                     r == CHOOSE cd \in (-A .. A) \X (-A .. A) :
                             /\ cd[1] * cd[1] + 2 * cd[2] * cd[2] = A
                             /\ 2 * cd[1] * cd[2] = B
                             /\ SignAB(cd[1], cd[2]) > 0
                 IN Num(r[1], r[2], j)

\* ------------------------------------------------- complex (lines 377-388)
Cx(re, im) == [real |-> re, imag |-> im]

complexAdd(a, b) == Cx(RAdd(a.real, b.real), RAdd(a.imag, b.imag))

complexMultiply(a, b) == Cx(RSub(RMul(a.real, b.real), RMul(a.imag, b.imag)),
                            RAdd(RMul(a.real, b.imag), RMul(a.imag, b.real)))

complexMagnitude(c) == RSqrt(RAdd(RMul(c.real, c.real), RMul(c.imag, c.imag)))

CZero == Cx(Zero, Zero)
COne == Cx(One, Zero)

\* ------------------------------------------------ state vectors and gates
\* Math.pow(2, numQubits)
StateSize(n) == Pow2(n)

\* An array is a function on its keys: the indices written so far and, for
\* an array a call has written outside its bounds, the other keys it was
\* given.  Reading a key that is absent gives undefined.
Undefined == Cx([a |-> 0, b |-> 0, k |-> -2], [a |-> 0, b |-> 0, k |-> -2])

Read(st, i) == IF i \in DOMAIN st THEN st[i] ELSE Undefined

Write(st, i, v) == IF i \in DOMAIN st THEN [st EXCEPT ![i] = v]
                   ELSE [j \in DOMAIN st \cup {i} |-> IF j = i THEN v ELSE st[j]]

\* state.length: one more than the largest index
Length(st) == LET c == Cardinality(DOMAIN st)
                  idx == {i \in DOMAIN st : i >= 0}
              IN IF DOMAIN st = 0 .. (c - 1) THEN c
                 ELSE IF idx = {} THEN 0
                 ELSE 1 + (CHOOSE m \in idx : \A j \in idx : j <= m)

\* the range of for (let i = 0; i < state.length; i++)
Indices(st) == 0 .. (Length(st) - 1)

\* no element of the array is undefined or missing
WellFormed(st) == \A i \in Indices(st) : Read(st, i) # Undefined

\* The shift count of >> and << is taken modulo 32, and 1 << 31 is -2^31.
\* slip: qubit 0 taken as the least significant bit
ShiftCount_LSBFirst(qubit, n) == qubit % 32

ShiftCount(qubit, n) == (n - 1 - qubit) % 32

MinInt32 == -2147483647 - 1

\* (i >> (numQubits - 1 - qubit)) & 1, for 0 <= i < 2^31
BitOf(i, qubit, n) == LET s == ShiftCount(qubit, n)
                      IN IF s = 31 THEN 0 ELSE (i \div Pow2(s)) % 2

\* i ^ (1 << (numQubits - 1 - qubit)), for 0 <= i < 2^30
FlipBit(i, qubit, n) == LET s == ShiftCount(qubit, n)
                        IN IF s = 31 THEN i + MinInt32
                           ELSE IF (i \div Pow2(s)) % 2 = 1 THEN i - Pow2(s)
                           ELSE i + Pow2(s)

\* slip: state[0] = { real: 1, imag: 0 } left out
initializeQuantumState_AllZero(n) == [i \in 0 .. (StateSize(n) - 1) |-> CZero]

initializeQuantumState(n) == [i \in 0 .. (StateSize(n) - 1) |-> IF i = 0 THEN COne ELSE CZero]

\* slip: 1 / 2 written for 1 / Math.sqrt(2)
InvSqrt2_Half == Half

\* 1 / Math.sqrt(2)
InvSqrt2 == RDiv(One, RSqrt(Two))

GateX == <<<<CZero, COne>>, <<COne, CZero>>>>
GateY == <<<<CZero, Cx(Zero, MinusOne)>>, <<Cx(Zero, One), CZero>>>>
GateZ == <<<<COne, CZero>>, <<CZero, Cx(MinusOne, Zero)>>>>
GateH == <<<<Cx(InvSqrt2, Zero), Cx(InvSqrt2, Zero)>>,
           <<Cx(InvSqrt2, Zero), Cx(RNeg(InvSqrt2), Zero)>>>>

\* slip: the -1 of the Z gate left in the copied matrix
GateI_CopiedZ == <<<<COne, CZero>>, <<CZero, Cx(MinusOne, Zero)>>>>

GateI == <<<<COne, CZero>>, <<CZero, COne>>>>

\* gates[name][row][column], rows and columns 0 and 1
gates == [X |-> GateX, Y |-> GateY, Z |-> GateZ, H |-> GateH, I |-> GateI]

GateNames == DOMAIN gates

GateEntry(gate, row, col) == gate[row + 1][col + 1]

\* slip: the second term reads state[i] instead of the partner amplitude
applySingleQubitGate_NoPartner(st, gate, targetQubit, n) ==
    [i \in Indices(st) |->
        LET targetBit == BitOf(i, targetQubit, n)
            flippedIndex == FlipBit(i, targetQubit, n)
            amp0 == complexMultiply(GateEntry(gate, targetBit, 0),
                                    st[IF targetBit = 0 THEN i ELSE flippedIndex])
            amp1 == complexMultiply(GateEntry(gate, targetBit, 1), st[i])
        IN complexAdd(CZero, complexAdd(amp0, amp1))]

\* complex.multiply reads .real of both state[i] and state[flippedIndex]:
\* the call throws a TypeError when either is undefined
applySingleQubitGateThrows(st, targetQubit, n) ==
    \E i \in Indices(st) : \/ Read(st, i) = Undefined
                            \/ Read(st, FlipBit(i, targetQubit, n)) = Undefined

\* the vector the call returns when it does not throw
applySingleQubitGate(st, gate, targetQubit, n) ==
    [i \in Indices(st) |->
        LET targetBit == BitOf(i, targetQubit, n)
            flippedIndex == FlipBit(i, targetQubit, n)
            amp0 == complexMultiply(GateEntry(gate, targetBit, 0),
                                    st[IF targetBit = 0 THEN i ELSE flippedIndex])
            amp1 == complexMultiply(GateEntry(gate, targetBit, 1),
                                    st[IF targetBit = 1 THEN i ELSE flippedIndex])
        IN complexAdd(CZero, complexAdd(amp0, amp1))]

\* slip: the swap loses its write-back newState[flippedIndex] = temp
CNOTStep_NoWriteBack(newState, i, controlQubit, targetQubit, n) ==
    IF BitOf(i, controlQubit, n) = 1
    THEN Write(newState, i, Read(newState, FlipBit(i, targetQubit, n)))
    ELSE newState

\* one iteration of the loop of applyCNOTGate on the working copy newState
CNOTStep(newState, i, controlQubit, targetQubit, n) ==
    IF BitOf(i, controlQubit, n) = 1
    THEN LET flippedIndex == FlipBit(i, targetQubit, n)
             temp == Read(newState, i)
         IN Write(Write(newState, i, Read(newState, flippedIndex)), flippedIndex, temp)
    ELSE newState

\* the loop for (let i = 0; i < state.length; i++), len = state.length of
\* the input
RECURSIVE CNOTLoop(_, _, _, _, _, _)
CNOTLoop(newState, i, len, controlQubit, targetQubit, n) ==
    IF i >= len THEN newState
    ELSE CNOTLoop(CNOTStep(newState, i, controlQubit, targetQubit, n),
                  i + 1, len, controlQubit, targetQubit, n)

\* applyCNOTGate has no statement that can throw
applyCNOTGate(st, controlQubit, targetQubit, n) ==
    CNOTLoop(st, 0, Length(st), controlQubit, targetQubit, n)

\* complex.magnitude(amplitude) ** 2
Probability(amplitude) == LET m == complexMagnitude(amplitude) IN RMul(m, m)

\* slip: the magnitude is returned without ** 2
getProbabilities_NoSquare(st) == [i \in Indices(st) |-> complexMagnitude(st[i])]

getProbabilities(st) == [i \in Indices(st) |-> Probability(st[i])]

\* the first loop of measureQubit from index i on: acc = <<prob0, prob1>>,
\* len = state.length
RECURSIVE ProbLoop(_, _, _, _, _, _)
ProbLoop(st, i, len, acc, qubit, n) ==
    IF i >= len THEN acc
    ELSE LET probability == Probability(st[i])
         IN ProbLoop(st, i + 1, len,
                     IF BitOf(i, qubit, n) = 0
                     THEN <<RAdd(acc[1], probability), acc[2]>>
                     ELSE <<acc[1], RAdd(acc[2], probability)>>,
                     qubit, n)

\* <<prob0, prob1>> after the first loop
Probs(st, qubit, n) == ProbLoop(st, 0, Length(st), <<Zero, Zero>>, qubit, n)

\* complex.magnitude reads .real of every state[i]: the call throws a
\* TypeError when one is undefined
measureQubitThrows(st) == ~WellFormed(st)

\* slip: <= written for <
MeasureResult_LessEq(p0, random) == IF ~RLess(p0, random) THEN 0 ELSE 1

\* Math.random() < prob0 ? 0 : 1, for the draw random
MeasureResult(p0, random) == IF RLess(random, p0) THEN 0 ELSE 1

\* slip: the amplitudes are divided by the probability, not by its root
Collapse_NoSqrt(st, qubit, n, result, p) ==
    LET norm == p[result + 1]
    IN [i \in Indices(st) |->
          IF BitOf(i, qubit, n) = result
          THEN Cx(RDiv(st[i].real, norm), RDiv(st[i].imag, norm))
          ELSE CZero]

\* the collapse loop of measureQubit for the sampled result, p = <<prob0, prob1>>
Collapse(st, qubit, n, result, p) ==
    LET norm == RSqrt(p[result + 1])
    IN [i \in Indices(st) |->
          IF BitOf(i, qubit, n) = result
          THEN Cx(RDiv(st[i].real, norm), RDiv(st[i].imag, norm))
          ELSE CZero]

\* slip: the vector is returned as it was given, not collapsed
measureQubit_NoCollapse(st, qubit, n, random) ==
    LET p == Probs(st, qubit, n)
    IN [result |-> MeasureResult(p[1], random), newState |-> st]

measureQubit(st, qubit, n, random) ==
    LET p == Probs(st, qubit, n)
        result == MeasureResult(p[1], random)
    IN [result |-> result, newState |-> Collapse(st, qubit, n, result, p)]

\* ------------------------------------------------------------ the harness
\* A caller holds the current state vector and applies the exported
\* functions to it one after another, as QuantumCircuitSimulator does.
\*   last      the call made last (a CircuitOperation plus what it returned)
\*   prev      the state vector that call was given
\*   calls     the number of calls made, counted up to MaxCalls
\* numQubits and state are what the caller holds; last is the last call, prev
\* the vector it was given and input the array it was given as it is after
\* the call; calls counts the calls up to MaxCalls.
VARIABLES numQubits, state, prev, last, calls, input

\* The rest of the state of QuantumCircuitSimulator: the operation list, the
\* two selections (Null for null) and the measurement indicators.
VARIABLES circuit, selectedQubit, selectedControl, measurementResults

\* The handler of the component that the last step called directly, with its
\* arguments; NoRequest at the start and after a step that went through the
\* onClick or onChange function of a control (all controls but Reset, whose
\* onClick is resetCircuit itself).
VARIABLE request

simVars == <<circuit, selectedQubit, selectedControl, measurementResults, request>>

\* AnalyticsSystem: this.events, the list under STORAGE_KEY in localStorage,
\* and every event tracked so far in the order of tracking (the events an
\* earlier session left in localStorage first).
VARIABLES events, storage, tracked

\* the number of trackEvent calls of this session, counted up to MaxCalls
VARIABLE trackCalls

analyticsVars == <<events, storage, tracked, trackCalls>>

\* CollaborativeExperimentSystem, for the one challenge in this.challenges
\* that submitToChallenge is called for: its submissions counter and
\* topSubmissions list, the challenge as saved under CHALLENGES_KEY, what
\* the last call returned ("none" before the first), and how often each
\* score has been given to a successful submission.
VARIABLES submissions, topSubmissions, challengeStorage, returned, scored

challengeVars == <<submissions, topSubmissions, challengeStorage, returned, scored>>

\* Home and LoadingScreen: appState; progress and currentStep of the
\* LoadingScreen (as it left them, once it is unmounted); whether its
\* interval timer is set; the number of updater functions setProgress has
\* queued and React has not run yet (progress is what the next one is given
\* as prev); the setTimeout(onComplete, 500) timers that have not fired yet.
VARIABLES appState, progress, currentStep, interval, pendingUpdates, completeTimers

homeVars == <<appState, progress, currentStep, interval, pendingUpdates, completeTimers>>

\* AIChatInterface: the state input (chatInput), isLoading, isThinking and
\* messages; input and isLoading as the last render gave them to
\* handleSubmit; the handleSubmit calls that are past the guard and not yet
\* through their finally block, each with where it is; what the last
\* handleSubmit call saw and did; and the number of handleSubmit calls.
VARIABLES chatInput, isLoading, isThinking, messages, rendered, requests, submit, submitCalls

chatVars == <<chatInput, isLoading, isThinking, messages, rendered, requests,
              submit, submitCalls>>

\* the state of the modules other than the quantum simulator
appVars == <<analyticsVars, challengeVars, homeVars, chatVars>>

quantumVars == <<numQubits, state, prev, last, calls, input, simVars>>

vars == <<quantumVars, appVars>>

Null == -1

NoResults == [q \in {} |-> 0]

NoRequest == [handler |-> "none", gate |-> "-", control |-> Null, target |-> Null]

Qubits == 0 .. (numQubits - 1)

\* values Math.random() can return, all in [0, 1)
RandomDraws == {Zero, Half}

\* error is the failure a call reported.  None of the three functions has a
\* throw statement or an error return; the only failure is the TypeError of
\* reading .real of undefined.
NoOp == [type |-> "none", gate |-> "-", target |-> -1, control |-> -1,
         random |-> Zero, result |-> -1, error |-> "none"]
SingleOp(g, q) == [type |-> "single", gate |-> g, target |-> q, control |-> -1,
                   random |-> Zero, result |-> -1, error |-> "none"]
CNOTOp(c, t) == [type |-> "cnot", gate |-> "-", target |-> t, control |-> c,
                 random |-> Zero, result |-> -1, error |-> "none"]
MeasureOp(q, r, res) == [type |-> "measure", gate |-> "-", target |-> q, control |-> -1,
                         random |-> r, result |-> res, error |-> "none"]

\* The array in which each function builds its result: a new one (lines 467,
\* 491, 530), never the array it was given.
GateNewState_Alias == "input"

GateNewState == "fresh"

CNOTNewState == "fresh"

MeasureNewState == "fresh"

\* the caller's array after a call that built result in the array ref
InputAfter(st, ref, result) == IF ref = "input" THEN result ELSE st

Thrown(op, err) == [op EXCEPT !.error = err]

Record(op) == /\ last' = op
              /\ prev' = state
              /\ calls' = IF calls < MaxCalls THEN calls + 1 ELSE calls
              /\ UNCHANGED numQubits

\* A caller that holds the vector in state and replaces it by what the call
\* returns; a call that throws returns nothing and the caller keeps its vector.
GateOn(g, q) ==
    IF applySingleQubitGateThrows(state, q, numQubits)
    THEN /\ state' = state
         /\ input' = state
         /\ Record(Thrown(SingleOp(g, q), "TypeError"))
    ELSE /\ state' = applySingleQubitGate(state, gates[g], q, numQubits)
         /\ input' = InputAfter(state, GateNewState, state')
         /\ Record(SingleOp(g, q))

CNOTOn(c, t) == /\ state' = applyCNOTGate(state, c, t, numQubits)
                /\ input' = InputAfter(state, CNOTNewState, state')
                /\ Record(CNOTOp(c, t))

MeasureOn(q, r) ==
    IF measureQubitThrows(state)
    THEN /\ state' = state
         /\ input' = state
         /\ Record(Thrown(MeasureOp(q, r, -1), "TypeError"))
    ELSE LET m == measureQubit(state, q, numQubits, r)
         IN /\ state' = m.newState
            /\ input' = InputAfter(state, MeasureNewState, m.newState)
            /\ Record(MeasureOp(q, r, m.result))

ApplyGate == \E g \in GateNames, q \in Qubits : GateOn(g, q) /\ UNCHANGED <<simVars, appVars>>

ApplyCNOT == \E c \in Qubits, t \in Qubits : c # t /\ CNOTOn(c, t) /\ UNCHANGED <<simVars, appVars>>

Measure == \E q \in Qubits, r \in RandomDraws : MeasureOn(q, r) /\ UNCHANGED <<simVars, appVars>>

Next == ApplyGate \/ ApplyCNOT \/ Measure

\* the other modules as they are before anything has used them
AnalyticsIdle == /\ events = << >>
                 /\ storage = << >>
                 /\ tracked = << >>
                 /\ trackCalls = 0

\* Math.random() * 100 of the scoring
Scores == {0, 50, 99}

\* a default challenge: submissions: 0, topSubmissions: []
ChallengeIdle == /\ submissions = 0
                 /\ topSubmissions = << >>
                 /\ challengeStorage = [submissions |-> 0, topSubmissions |-> << >>]
                 /\ returned = "none"
                 /\ scored = [s \in Scores |-> 0]

\* useState<AppState>("landing"); no LoadingScreen is mounted
HomeIdle == /\ appState = "landing"
            /\ progress = 0
            /\ currentStep = 0
            /\ interval = FALSE
            /\ pendingUpdates = 0
            /\ completeTimers = 0

\* useState(""), useState(false), useState(false), no saved conversation
ChatIdle == /\ chatInput = ""
            /\ isLoading = FALSE
            /\ isThinking = FALSE
            /\ messages = << >>
            /\ rendered = [input |-> "", isLoading |-> FALSE]
            /\ requests = << >>
            /\ submit = [seen |-> rendered, result |-> "none"]
            /\ submitCalls = 0

AppIdle == AnalyticsIdle /\ ChallengeIdle /\ HomeIdle /\ ChatIdle

Start(inputs) == /\ state \in inputs
                 /\ prev = state
                 /\ input = state
                 /\ last = NoOp
                 /\ calls = 0
                 /\ circuit = << >>
                 /\ selectedQubit = Null
                 /\ selectedControl = Null
                 /\ measurementResults = NoResults
                 /\ request = NoRequest
                 /\ AppIdle

Init == /\ numQubits \in 1 .. MaxQubits
        /\ Start({initializeQuantumState(numQubits)})

Spec == Init /\ [][Next]_vars

\* Arbitrary input vectors for the gate functions, which are linear in the
\* state: every basis vector, the zero vector and a vector whose amplitudes
\* are pairwise different, and what up to MaxCalls calls make of them.
BasisState(n, j) == [i \in 0 .. (StateSize(n) - 1) |-> IF i = j THEN COne ELSE CZero]
ZeroVector(n) == [i \in 0 .. (StateSize(n) - 1) |-> CZero]
Tagged(n) == [i \in 0 .. (StateSize(n) - 1) |-> Cx(Num(i + 1, 0, 0), Num(0, -(i + 1), 1))]
Scaled(st, x) == [i \in DOMAIN st |-> Cx(RMul(x, st[i].real), RMul(x, st[i].imag))]

InputVectors(n) == {BasisState(n, j) : j \in 0 .. (StateSize(n) - 1)}
                       \cup {ZeroVector(n), Tagged(n)}

InitAny == /\ numQubits \in 1 .. MaxQubits
           /\ Start(InputVectors(numQubits))

GateCall == calls < MaxCalls /\ ApplyGate

CNOTCall == calls < MaxCalls /\ ApplyCNOT

NextAny == GateCall \/ CNOTCall

SpecAny == InitAny /\ [][NextAny]_vars

\* Input vectors for measureQubit that are not normalized: the zero vector
\* and the basis vectors scaled by 1/2.
MeasureInputs(n) == {Scaled(BasisState(n, j), Half) : j \in 0 .. (StateSize(n) - 1)}
                        \cup {ZeroVector(n)}

InitMeasure == /\ numQubits \in 1 .. MaxQubits
               /\ Start(MeasureInputs(numQubits))

SpecMeasure == InitMeasure /\ [][Next]_vars

\* Input vectors for formatQuantumState and what the gates make of them: the
\* initial vector, the zero vector, and vectors with one amplitude
\* 3/2^35 + (3/2^35) i, whose parts are about 8.7e-11 and whose magnitude
\* is about 1.2e-10.
TinyPart == Num(3, 0, 35)

TinyVector(n, j) ==
    [i \in 0 .. (StateSize(n) - 1) |-> IF i = j THEN Cx(TinyPart, TinyPart) ELSE CZero]

FormatInputs(n) == {TinyVector(n, j) : j \in 0 .. (StateSize(n) - 1)}
                       \cup {ZeroVector(n), initializeQuantumState(n)}

InitFormat == /\ numQubits \in 1 .. MaxQubits
              /\ Start(FormatInputs(numQubits))

SpecFormat == InitFormat /\ [][NextAny]_vars

\* Calls with any qubit argument, in range or one step outside it on either
\* side, on the vector initializeQuantumState returns for any qubit count
\* from 0 up.
QubitArgs == -1 .. numQubits

InitArgs == /\ numQubits \in 0 .. MaxQubits
            /\ Start({initializeQuantumState(numQubits)})

GateArgs == /\ calls < MaxCalls
            /\ \E g \in GateNames, q \in QubitArgs : GateOn(g, q)
            /\ UNCHANGED <<simVars, appVars>>

CNOTArgs == /\ calls < MaxCalls
            /\ \E c \in QubitArgs, t \in QubitArgs : CNOTOn(c, t)
            /\ UNCHANGED <<simVars, appVars>>

MeasureArgs == /\ calls < MaxCalls
               /\ \E q \in QubitArgs, r \in RandomDraws : MeasureOn(q, r)
               /\ UNCHANGED <<simVars, appVars>>

NextArgs == GateArgs \/ CNOTArgs \/ MeasureArgs

SpecArgs == InitArgs /\ [][NextArgs]_vars

\* ------------------------------------------- formatQuantumState (551-577)
\* Math.abs
RAbs(x) == IF IsNaN(x) THEN NaN ELSE IF Sign(x) < 0 THEN RNeg(x) ELSE x

\* floor(1000 * 2^k * 1e-10) = floor(2^(k-7) / 5^7), for 7 <= k <= 37; the
\* quotient is never an integer
Epsilon1000(k) == Pow2(k - 7) \div 78125

\* x > 1e-10.  A positive (a + b*sqrt 2) / 2^k with |a|, |b| <= 1000 is at
\* least 1 / (2415 * 2^k), which exceeds 1e-10 when k <= 20; for larger k the
\* numerator is compared with 2^k * 1e-10 in thousandths.  Outside these
\* ranges the comparison is left undefined.
ExceedsThreshold(x) ==
    IF IsNaN(x) \/ Sign(x) <= 0 THEN FALSE
    ELSE IF x.k <= 20 /\ Abs(x.a) <= 1000 /\ Abs(x.b) <= 1000 THEN TRUE
    ELSE IF x.k > 20 /\ x.k <= 37 /\ Abs(x.a) <= 30 /\ Abs(x.b) <= 30
         THEN LET lo == Epsilon1000(x.k)
              IN IF SignAB(1000 * x.a - (lo + 1), 1000 * x.b) >= 0 THEN TRUE
                 ELSE IF SignAB(1000 * x.a - lo, 1000 * x.b) <= 0 THEN FALSE
                 ELSE CHOOSE undecided \in {} : TRUE
    ELSE CHOOSE undecided \in {} : TRUE

\* floor of the square root of n, lo * lo <= n < hi * hi
RECURSIVE ISqrtBetween(_, _, _)
ISqrtBetween(n, lo, hi) ==
    IF hi - lo <= 1 THEN lo
    ELSE LET mid == (lo + hi) \div 2
         IN IF mid * mid <= n THEN ISqrtBetween(n, mid, hi)
            ELSE ISqrtBetween(n, lo, mid)

ISqrt(n) == ISqrtBetween(n, 0, 46341)

\* the integer nearest to 1000 * x, halves rounded up, for x >= 0:
\* floor((2000 a + 2^k + 2000 b sqrt 2) / 2^(k+1)).  With k >= 30 and
\* |a|, |b| <= 16 the value is below 0.0005.
Thousandths(x) ==
    IF Abs(x.a) > 500000 \/ Abs(x.b) > 16 THEN CHOOSE undecided \in {} : TRUE
    ELSE IF x.k >= 30 THEN (IF Abs(x.a) <= 16 THEN 0 ELSE CHOOSE undecided \in {} : TRUE)
    ELSE LET Q == 2000 * x.b
             root == IF Q >= 0 THEN ISqrt(2 * Q * Q) ELSE -ISqrt(2 * Q * Q) - 1
         IN (2000 * x.a + Pow2(x.k) + root) \div Pow2(x.k + 1)

Pad3(m) == IF m < 10 THEN "00" \o ToString(m)
           ELSE IF m < 100 THEN "0" \o ToString(m)
           ELSE ToString(m)

\* x.toFixed(3); a negative x keeps its sign when it rounds to zero
toFixed3(x) ==
    IF IsNaN(x) THEN "NaN"
    ELSE LET r == Thousandths(RAbs(x))
         IN (IF Sign(x) < 0 THEN "-" ELSE "")
                \o ToString(r \div 1000) \o "." \o Pad3(r % 1000)

\* i.toString(2)
RECURSIVE toString2(_)
toString2(i) == IF i < 2 THEN ToString(i) ELSE toString2(i \div 2) \o ToString(i % 2)

\* slip: the label is not padded
padStart_None(str, n) == str

\* str.padStart(n, "0")
RECURSIVE padStart(_, _)
padStart(str, n) == IF Len(str) >= n THEN str ELSE padStart("0" \o str, n)

\* amplitudeStr of lines 563-569
AmplitudeStr(amplitude) ==
    LET re == ExceedsThreshold(RAbs(amplitude.real))
        im == ExceedsThreshold(RAbs(amplitude.imag))
    IN IF re /\ im
       THEN "(" \o toFixed3(amplitude.real)
                \o (IF Sign(amplitude.imag) >= 0 THEN "+" ELSE "")
                \o toFixed3(amplitude.imag) \o "i)"
       ELSE IF re THEN toFixed3(amplitude.real)
       ELSE IF im THEN toFixed3(amplitude.imag) \o "i"
       ELSE ""

\* the indices that pass if (magnitude > 1e-10)
Significant(st) == {i \in Indices(st) : ExceedsThreshold(complexMagnitude(st[i]))}

\* the terms the loop pushes for the indices in S, in ascending order of the
\* index, each with its parts
RECURSIVE TermsOf(_, _, _)
TermsOf(st, S, n) ==
    IF S = {} THEN << >>
    ELSE LET i == CHOOSE m \in S : \A j \in S : m <= j
         IN <<[index |-> i,
               amplitudeStr |-> AmplitudeStr(st[i]),
               binaryState |-> padStart(toString2(i), n)]>>
                \o TermsOf(st, S \ {i}, n)

FormatTerms(st, n) == TermsOf(st, Significant(st), n)

TermText(t) == t.amplitudeStr \o "|" \o t.binaryState \o "⟩"

\* terms.join(" + ")
RECURSIVE Join(_)
Join(terms) == IF Len(terms) = 1 THEN TermText(terms[1])
               ELSE TermText(terms[1]) \o " + " \o Join(Tail(terms))

formatQuantumState(st, n) ==
    LET terms == FormatTerms(st, n)
    IN IF Len(terms) > 0 THEN Join(terms) ELSE "|00...0⟩"

\* ------------------------------------------------ QuantumCircuitSimulator
\* A CircuitOperation without its id (Date.now() as a string, used only as
\* the React key of the history row).
\* slip: the entry records qubit 0 whatever the target
CircuitSingle_Target0(gateName, target) ==
    [type |-> "single", gate |-> gateName, target |-> 0, control |-> Null]

CircuitSingle(gateName, target) ==
    [type |-> "single", gate |-> gateName, target |-> target, control |-> Null]

CircuitCNOT(control, target) ==
    [type |-> "cnot", gate |-> "-", target |-> target, control |-> control]

CircuitMeasure(target) ==
    [type |-> "measure", gate |-> "-", target |-> target, control |-> Null]

\* the library has been called since the last reset or not at all
Fresh == /\ last' = NoOp
         /\ prev' = state'
         /\ input' = state'
         /\ calls' = 0

\* slip: setQuantumState(initializeQuantumState(newNumQubits)) left out
handleQubitChange_KeepState ==
    \E newNumQubits \in MinSliderQubits .. MaxQubits :
        /\ newNumQubits <= MaxSliderQubits
        /\ numQubits' = newNumQubits
        /\ circuit' = << >>
        /\ measurementResults' = NoResults
        /\ selectedQubit' = Null
        /\ selectedControl' = Null
        /\ UNCHANGED <<state, prev, last, calls, input>>

handleQubitChange ==
    \E newNumQubits \in MinSliderQubits .. MaxQubits :
        /\ newNumQubits <= MaxSliderQubits
        /\ numQubits' = newNumQubits
        /\ state' = initializeQuantumState(newNumQubits)
        /\ circuit' = << >>
        /\ measurementResults' = NoResults
        /\ selectedQubit' = Null
        /\ selectedControl' = Null
        /\ Fresh

\* names for which `gateName in gates` holds although gates has no such key
\* of its own: the properties every object literal inherits.  gates[name] is
\* then a function, gate[targetBit] is undefined and gate[targetBit][0]
\* throws a TypeError in the first round of the loop.
InheritedNames == {"toString"}

\* the handler returns before any set... call when the name is not a gate; a
\* call that throws leaves the handler before setQuantumState
applySingleGate(gateName, target) ==
    IF gateName \notin GateNames \cup InheritedNames
    THEN UNCHANGED <<numQubits, state, prev, last, calls, input, circuit>>
    ELSE IF gateName \in InheritedNames
    THEN /\ state' = state
         /\ input' = state
         /\ Record(Thrown(SingleOp(gateName, target), "TypeError"))
         /\ UNCHANGED circuit
    ELSE /\ GateOn(gateName, target)
         /\ circuit' = IF last'.error = "none"
                       THEN Append(circuit, CircuitSingle(gateName, target))
                       ELSE circuit

\* slip: the test of control === target left out
applyCNOT_NoSameCheck(control, target) ==
    /\ CNOTOn(control, target)
    /\ circuit' = Append(circuit, CircuitCNOT(control, target))

applyCNOT(control, target) ==
    IF control = target
    THEN UNCHANGED <<numQubits, state, prev, last, calls, input, circuit>>
    ELSE /\ CNOTOn(control, target)
         /\ circuit' = Append(circuit, CircuitCNOT(control, target))

measureQubitAtIndex(target, r) ==
    /\ MeasureOn(target, r)
    /\ IF last'.error = "none"
       THEN /\ measurementResults' =
                  [q \in DOMAIN measurementResults \cup {target} |->
                      IF q = target THEN last'.result ELSE measurementResults[q]]
            /\ circuit' = Append(circuit, CircuitMeasure(target))
       ELSE UNCHANGED <<measurementResults, circuit>>

\* slip: setSelectedControl(null) left out
resetCircuit_KeepControl ==
    /\ state' = initializeQuantumState(numQubits)
    /\ circuit' = << >>
    /\ measurementResults' = NoResults
    /\ selectedQubit' = Null
    /\ UNCHANGED <<numQubits, selectedControl>>
    /\ Fresh

resetCircuit ==
    /\ state' = initializeQuantumState(numQubits)
    /\ circuit' = << >>
    /\ measurementResults' = NoResults
    /\ selectedQubit' = Null
    /\ selectedControl' = Null
    /\ UNCHANGED numQubits
    /\ Fresh

\* the slider's onChange
SliderChange == handleQubitChange /\ request' = NoRequest /\ UNCHANGED appVars

\* the Reset button: onClick={resetCircuit}
ResetButton ==
    /\ resetCircuit
    /\ UNCHANGED appVars
    /\ request' = [handler |-> "resetCircuit", gate |-> "-",
                   control |-> Null, target |-> Null]

\* the buttons: the gate buttons leave out I, and every button that needs a
\* selection is disabled without one
ButtonGates == GateNames \ {"I"}

\* slip: one qubit button more than there are qubits
SelectQubit_OneMore ==
    \E i \in 0 .. numQubits :
        /\ selectedQubit' = IF selectedQubit = i THEN Null ELSE i
        /\ UNCHANGED <<numQubits, state, prev, last, calls, input,
                       circuit, selectedControl, measurementResults>>
        /\ UNCHANGED appVars
        /\ request' = NoRequest

SelectQubit ==
    \E i \in Qubits :
        /\ selectedQubit' = IF selectedQubit = i THEN Null ELSE i
        /\ UNCHANGED <<numQubits, state, prev, last, calls, input,
                       circuit, selectedControl, measurementResults>>
        /\ UNCHANGED appVars
        /\ request' = NoRequest

GateButton ==
    /\ calls < MaxCalls
    /\ selectedQubit # Null
    /\ \E g \in ButtonGates : applySingleGate(g, selectedQubit)
    /\ UNCHANGED <<selectedQubit, selectedControl, measurementResults>>
    /\ UNCHANGED appVars
    /\ request' = NoRequest

SetControl ==
    /\ selectedQubit # Null
    /\ selectedControl' = IF selectedControl = Null THEN selectedQubit ELSE Null
    /\ UNCHANGED <<numQubits, state, prev, last, calls, input,
                   circuit, selectedQubit, measurementResults>>
    /\ UNCHANGED appVars
    /\ request' = NoRequest

CNOTButton ==
    /\ selectedControl = selectedQubit \/ calls < MaxCalls
    /\ selectedControl # Null
    /\ selectedQubit # Null
    /\ applyCNOT(selectedControl, selectedQubit)
    /\ selectedControl' = Null
    /\ UNCHANGED <<selectedQubit, measurementResults>>
    /\ UNCHANGED appVars
    /\ request' = NoRequest

MeasureButton ==
    /\ calls < MaxCalls
    /\ selectedQubit # Null
    /\ \E r \in RandomDraws : measureQubitAtIndex(selectedQubit, r)
    /\ UNCHANGED <<selectedQubit, selectedControl>>
    /\ UNCHANGED appVars
    /\ request' = NoRequest

InitSim == /\ numQubits = InitialQubits
           /\ Start({initializeQuantumState(InitialQubits)})

\* quantumState.amplitudes: QuantumState is Complex[], and an array of
\* amplitudes has no property amplitudes, so the read gives undefined
\* whatever the array holds.
PropertyAmplitudes(st) == [defined |-> FALSE, array |-> << >>]

\* the props handed to QuantumVisualizationEngine
VisualizationProps ==
    [quantumState |-> PropertyAmplitudes(state), numQubits |-> numQubits]

\* what the component renders as the state vector
stateString == formatQuantumState(state, numQubits)

NextSim == \/ SliderChange
           \/ SelectQubit
           \/ GateButton
           \/ SetControl
           \/ CNOTButton
           \/ MeasureButton
           \/ ResetButton

SpecSim == InitSim /\ [][NextSim]_vars

\* The handlers called directly, with any arguments of their parameter types:
\* gate names that are keys of gates, one that is none, and an inherited one.
GateNameArgs == GateNames \cup {"T"} \cup InheritedNames

SingleGateRequest ==
    \E g \in GateNameArgs, t \in Qubits :
        /\ calls < MaxCalls \/ g \notin GateNames \cup InheritedNames
        /\ applySingleGate(g, t)
        /\ UNCHANGED appVars
        /\ request' = [handler |-> "applySingleGate", gate |-> g,
                       control |-> Null, target |-> t]
        /\ UNCHANGED <<selectedQubit, selectedControl, measurementResults>>

CNOTRequest ==
    \E c \in Qubits, t \in Qubits :
        /\ calls < MaxCalls \/ c = t
        /\ applyCNOT(c, t)
        /\ UNCHANGED appVars
        /\ request' = [handler |-> "applyCNOT", gate |-> "-",
                       control |-> c, target |-> t]
        /\ UNCHANGED <<selectedQubit, selectedControl, measurementResults>>

MeasureRequest ==
    \E t \in Qubits, r \in RandomDraws :
        /\ calls < MaxCalls
        /\ measureQubitAtIndex(t, r)
        /\ UNCHANGED appVars
        /\ request' = [handler |-> "measureQubitAtIndex", gate |-> "-",
                       control |-> Null, target |-> t]
        /\ UNCHANGED <<selectedQubit, selectedControl>>

QubitChangeRequest ==
    /\ handleQubitChange
    /\ UNCHANGED appVars
    /\ request' = [handler |-> "handleQubitChange", gate |-> "-",
                   control |-> Null, target |-> numQubits']

NextHandlers == \/ SingleGateRequest
                \/ CNOTRequest
                \/ MeasureRequest
                \/ QubitChangeRequest
                \/ ResetButton

SpecHandlers == InitSim /\ [][NextHandlers]_vars

\* --------------------------------------------------------- AnalyticsSystem
MAX_EVENTS == 10000

EventTypes == {"quantum_experiment", "ai_conversation", "voice_interaction",
               "collaboration", "learning"}

\* An AnalyticsEvent.  Its id (`event_${Date.now()}_${random}`) is unique and
\* is the serial number of the event here; userId, sessionId, data and
\* metadata play no part in what is kept.
Event(serial, type) == [id |-> serial, type |-> type]

\* slip: slice(0, n), the first n elements
Slice_First(seq, n) == IF Len(seq) <= n THEN seq ELSE SubSeq(seq, 1, n)

\* seq.slice(-n) for n > 0: the last n elements, all of seq when it has fewer
Slice(seq, n) == IF Len(seq) <= n THEN seq ELSE SubSeq(seq, Len(seq) - n + 1, Len(seq))

\* the events an earlier session left under STORAGE_KEY: the performance
\* monitor's, one a minute
Earlier(n) == [i \in 1 .. n |-> Event(i, "learning")]

StoredLists == {Earlier(n) : n \in {0, MAX_EVENTS - 1, MAX_EVENTS}}

\* the quantum simulator component as mounted, untouched
SimIdle == /\ numQubits = InitialQubits
           /\ state = initializeQuantumState(InitialQubits)
           /\ prev = state
           /\ input = state
           /\ last = NoOp
           /\ calls = 0
           /\ circuit = << >>
           /\ selectedQubit = Null
           /\ selectedControl = Null
           /\ measurementResults = NoResults
           /\ request = NoRequest

\* new AnalyticsSystem(): loadFromStorage takes over the stored list
InitAnalytics == /\ SimIdle
                 /\ ChallengeIdle
                 /\ HomeIdle
                 /\ ChatIdle
                 /\ storage \in StoredLists
                 /\ events = storage
                 /\ tracked = storage
                 /\ trackCalls = 0

\* trackEvent(type, data, metadata), also called by the performance monitor's
\* timer; saveToStorage catches the error of a setItem that fails (quota) and
\* the stored list then stays as it was
trackEvent ==
    \E type \in EventTypes :
        LET event == Event(Len(tracked) + 1, type)
            pushed == Append(events, event)
            kept == IF Len(pushed) > MAX_EVENTS THEN Slice(pushed, MAX_EVENTS) ELSE pushed
        IN /\ trackCalls < MaxCalls
           /\ events' = kept
           /\ tracked' = Append(tracked, event)
           /\ storage' \in {kept, storage}
           /\ trackCalls' = trackCalls + 1
           /\ UNCHANGED <<quantumVars, challengeVars, homeVars, chatVars>>

NextAnalytics == trackEvent

SpecAnalytics == InitAnalytics /\ [][NextAnalytics]_vars

\* ------------------------------------------ CollaborativeExperimentSystem
TOP_SUBMISSIONS == 10

\* ids submitToChallenge is called with: the challenge and an experiment
\* that exist, and one of each that does not
ChallengeIds == {"challenge", "unknown"}
ExperimentIds == {"experiment", "unknown"}

\* slip: (a, b) => a.score - b.score
Compare_Ascending(a, b) == a.score - b.score

\* the comparator (a, b) => b.score - a.score
Compare(a, b) == b.score - a.score

\* Array.prototype.sort with the comparator: stable, so e is placed behind
\* the entries it does not have to precede
RECURSIVE Insert(_, _)
Insert(sorted, e) ==
    IF sorted = << >> THEN <<e>>
    ELSE IF Compare(Head(sorted), e) <= 0
         THEN <<Head(sorted)>> \o Insert(Tail(sorted), e)
         ELSE <<e>> \o sorted

RECURSIVE Sort(_)
Sort(seq) ==
    IF seq = << >> THEN << >>
    ELSE Insert(Sort(SubSeq(seq, 1, Len(seq) - 1)), seq[Len(seq)])

\* seq.slice(0, n)
SliceFront(seq, n) == IF Len(seq) <= n THEN seq ELSE SubSeq(seq, 1, n)

\* An entry of topSubmissions without its timestamp (Date.now()); the author
\* is the experiment's.
Submission(experimentId, score) == [experimentId |-> experimentId, score |-> score]

submitToChallenge ==
    \E challengeId \in ChallengeIds, experimentId \in ExperimentIds, score \in Scores :
        IF challengeId = "unknown" \/ experimentId = "unknown"
        THEN /\ returned' = "false"
             /\ UNCHANGED <<submissions, topSubmissions, challengeStorage, scored>>
             /\ UNCHANGED <<quantumVars, analyticsVars, homeVars, chatVars>>
        ELSE LET pushed == Append(topSubmissions, Submission(experimentId, score))
                 top == SliceFront(Sort(pushed), TOP_SUBMISSIONS)
             IN /\ submissions < TOP_SUBMISSIONS + MaxCalls
                /\ submissions' = submissions + 1
                /\ topSubmissions' = top
                /\ challengeStorage' \in
                      {[submissions |-> submissions', topSubmissions |-> top],
                       challengeStorage}
                /\ returned' = "true"
                /\ scored' = [scored EXCEPT ![score] = @ + 1]
                /\ UNCHANGED <<quantumVars, analyticsVars, homeVars, chatVars>>

InitChallenge == SimIdle /\ AnalyticsIdle /\ ChallengeIdle /\ HomeIdle /\ ChatIdle

NextChallenge == submitToChallenge

SpecChallenge == InitChallenge /\ [][NextChallenge]_vars

\* --------------------------------------------------- Home, LoadingScreen
ProgressStep == 2

ProgressEnd == 100

\* steps.length
StepCount == 6

\* Math.min(Math.floor((newProgress / 100) * steps.length), steps.length - 1)
StepIndex(newProgress) ==
    LET stepIndex == (newProgress * StepCount) \div ProgressEnd
    IN IF stepIndex < StepCount - 1 THEN stepIndex ELSE StepCount - 1

\* slip: the updater returns newProgress where it should return 100
Updater_NoClamp(p) ==
    LET newProgress == p.progress + ProgressStep
    IN IF newProgress >= ProgressEnd
       THEN [progress |-> newProgress, currentStep |-> StepIndex(newProgress),
             interval |-> FALSE, completeTimers |-> p.completeTimers + 1]
       ELSE [progress |-> newProgress, currentStep |-> StepIndex(newProgress),
             interval |-> p.interval, completeTimers |-> p.completeTimers]

\* the function passed to setProgress, applied to prev: it sets currentStep
\* and, from 100 on, clears the interval and starts a timer for onComplete
Updater(p) ==
    LET newProgress == p.progress + ProgressStep
    IN IF newProgress >= ProgressEnd
       THEN [progress |-> ProgressEnd, currentStep |-> StepIndex(newProgress),
             interval |-> FALSE, completeTimers |-> p.completeTimers + 1]
       ELSE [progress |-> newProgress, currentStep |-> StepIndex(newProgress),
             interval |-> p.interval, completeTimers |-> p.completeTimers]

\* LandingPage's button calls handleEnterApp; Home then renders LoadingScreen,
\* whose state starts at 0 and whose effect sets the interval
handleEnterApp ==
    /\ appState = "landing"
    /\ appState' = "loading"
    /\ progress' = 0
    /\ currentStep' = 0
    /\ interval' = TRUE
    /\ pendingUpdates' = 0
    /\ UNCHANGED completeTimers
    /\ UNCHANGED <<quantumVars, analyticsVars, challengeVars, chatVars>>

\* the interval fires (every 50 ms): setProgress queues the updater
Tick ==
    /\ interval
    /\ pendingUpdates < MaxCalls
    /\ pendingUpdates' = pendingUpdates + 1
    /\ UNCHANGED <<appState, progress, currentStep, interval, completeTimers>>
    /\ UNCHANGED <<quantumVars, analyticsVars, challengeVars, chatVars>>

\* React runs the updater that is first in the queue, on the value the one
\* before it returned (a render runs all that are queued, one after another)
RunUpdater ==
    /\ appState = "loading"
    /\ pendingUpdates > 0
    /\ LET p == Updater([progress |-> progress, currentStep |-> currentStep,
                         interval |-> interval, completeTimers |-> completeTimers])
       IN /\ progress' = p.progress
          /\ currentStep' = p.currentStep
          /\ interval' = p.interval
          /\ completeTimers' = p.completeTimers
    /\ pendingUpdates' = pendingUpdates - 1
    /\ UNCHANGED appState
    /\ UNCHANGED <<quantumVars, analyticsVars, challengeVars, chatVars>>

\* a setTimeout(onComplete, 500) fires: handleLoadingComplete sets "app", Home
\* unmounts LoadingScreen, whose cleanup clears the interval and whose queued
\* updates are dropped
handleLoadingComplete ==
    /\ completeTimers > 0
    /\ completeTimers' = completeTimers - 1
    /\ appState' = "app"
    /\ interval' = FALSE
    /\ pendingUpdates' = 0
    /\ UNCHANGED <<progress, currentStep>>
    /\ UNCHANGED <<quantumVars, analyticsVars, challengeVars, chatVars>>

InitHome == SimIdle /\ AnalyticsIdle /\ ChallengeIdle /\ HomeIdle /\ ChatIdle

NextHome == handleEnterApp \/ Tick \/ RunUpdater \/ handleLoadingComplete

\* timer callbacks and renders that are due do run
SpecHome ==
    /\ InitHome
    /\ [][NextHome]_vars
    /\ WF_vars(Tick)
    /\ WF_vars(RunUpdater)
    /\ WF_vars(handleLoadingComplete)

\* ------------------------------------------------------- AIChatInterface
\* what the input field can hold: nothing, white space, a question
InputTexts == {"", " ", "hi"}

\* String.prototype.trim on those
trim(text) == IF text = " " THEN "" ELSE text

\* the messages the handler adds: the user's, the empty assistant message
\* that the stream fills, and the error message of the catch block
UserMessage(content) == [role |-> "user", content |-> content]
AssistantMessage == [role |-> "assistant", content |-> "..."]
ErrorMessage == [role |-> "assistant",
                 content |-> "Sorry, I encountered an error. Please try again."]

\* the sequence without its i-th element
Without(seq, i) == SubSeq(seq, 1, i - 1) \o SubSeq(seq, i + 1, Len(seq))

\* React renders the component again after a state change; handleSubmit
\* then sees the new input and isLoading
RenderChat ==
    /\ rendered # [input |-> chatInput, isLoading |-> isLoading]
    /\ rendered' = [input |-> chatInput, isLoading |-> isLoading]
    /\ UNCHANGED <<chatInput, isLoading, isThinking, messages, requests, submit, submitCalls>>
    /\ UNCHANGED <<quantumVars, analyticsVars, challengeVars, homeVars>>

\* typing in the field, which is disabled while isLoading; the render that
\* follows a keyboard event is synchronous
handleInputChange ==
    \E text \in InputTexts :
        /\ ~rendered.isLoading
        /\ text # chatInput
        /\ chatInput' = text
        /\ rendered' = [input |-> text, isLoading |-> isLoading]
        /\ UNCHANGED <<isLoading, isThinking, messages, requests, submit, submitCalls>>
        /\ UNCHANGED <<quantumVars, analyticsVars, challengeVars, homeVars>>

\* the speech recognition delivers a transcript: setInput(transcript)
onresult ==
    \E transcript \in InputTexts :
        /\ transcript # chatInput
        /\ chatInput' = transcript
        /\ UNCHANGED <<rendered, isLoading, isThinking, messages, requests, submit, submitCalls>>
        /\ UNCHANGED <<quantumVars, analyticsVars, challengeVars, homeVars>>

\* slip: the test of isLoading left out of the guard
Ignores_InputOnly(seen) == trim(seen.input) = ""

\* if (!input.trim() || isLoading) return, on the values of the last render
Ignores(seen) == trim(seen.input) = "" \/ seen.isLoading

\* handleSubmit up to its first await: the guard, the user message, the
\* three setters and the fetch that is started; the render that follows a
\* submit event is synchronous
handleSubmit ==
    /\ submitCalls <= MaxCalls
    /\ submitCalls' = submitCalls + 1
    /\ IF Ignores(rendered)
       THEN /\ submit' = [seen |-> rendered, result |-> "ignored"]
            /\ UNCHANGED <<chatInput, rendered, isLoading, isThinking, messages, requests>>
       ELSE /\ submit' = [seen |-> rendered, result |-> "accepted"]
            /\ messages' = Append(messages, UserMessage(rendered.input))
            /\ chatInput' = ""
            /\ isLoading' = TRUE
            /\ isThinking' = TRUE
            /\ requests' = Append(requests, "fetching")
            /\ rendered' = [input |-> "", isLoading |-> TRUE]
    /\ UNCHANGED <<quantumVars, analyticsVars, challengeVars, homeVars>>

\* fetch resolves with an ok response that has a body: the assistant
\* message is added and setIsThinking(false) is called
Respond ==
    \E i \in 1 .. Len(requests) :
        /\ requests[i] = "fetching"
        /\ requests' = [requests EXCEPT ![i] = "streaming"]
        /\ messages' = Append(messages, AssistantMessage)
        /\ isThinking' = FALSE
        /\ UNCHANGED <<chatInput, rendered, isLoading, submit, submitCalls>>
        /\ UNCHANGED <<quantumVars, analyticsVars, challengeVars, homeVars>>

\* the try block throws: fetch rejects, the response is not ok or has no
\* reader (while fetching), or reader.read() rejects (while streaming); the
\* catch block adds the error message and the finally block runs
Fail ==
    \E i \in 1 .. Len(requests) :
        /\ requests' = Without(requests, i)
        /\ messages' = Append(messages, ErrorMessage)
        /\ isLoading' = FALSE
        /\ isThinking' = FALSE
        /\ UNCHANGED <<chatInput, rendered, submit, submitCalls>>
        /\ UNCHANGED <<quantumVars, analyticsVars, challengeVars, homeVars>>

\* the stream is done: the loop ends and the finally block runs
Finish ==
    \E i \in 1 .. Len(requests) :
        /\ requests[i] = "streaming"
        /\ requests' = Without(requests, i)
        /\ isLoading' = FALSE
        /\ isThinking' = FALSE
        /\ UNCHANGED <<chatInput, rendered, messages, submit, submitCalls>>
        /\ UNCHANGED <<quantumVars, analyticsVars, challengeVars, homeVars>>

\* the request of an accepted submission comes to an end
Settle == Respond \/ Fail \/ Finish

InitChat == SimIdle /\ AnalyticsIdle /\ ChallengeIdle /\ HomeIdle /\ ChatIdle

NextChat == \/ RenderChat
            \/ handleInputChange
            \/ onresult
            \/ handleSubmit
            \/ Respond
            \/ Fail
            \/ Finish

\* every fetch and every read of the stream settles, and due renders happen
SpecChat ==
    /\ InitChat
    /\ [][NextChat]_vars
    /\ WF_vars(Settle)
    /\ WF_vars(RenderChat)

RECURSIVE SumFrom(_, _)
SumFrom(f, i) == IF i \notin DOMAIN f THEN Zero ELSE RAdd(f[i], SumFrom(f, i + 1))
Sum(f) == SumFrom(f, 0)

HasNaN(st) == \E i \in Indices(st) : IsNaN(st[i].real) \/ IsNaN(st[i].imag)

\* squared norm and marginal probability, as sums of real^2 + imag^2
AbsSq(c) == RAdd(RMul(c.real, c.real), RMul(c.imag, c.imag))
NormSq(st) == Sum([i \in DOMAIN st |-> AbsSq(st[i])])
Marginal(st, qubit, bit, n) ==
    Sum([i \in DOMAIN st |-> IF BitOf(i, qubit, n) = bit THEN AbsSq(st[i]) ELSE Zero])

ProbVector(seq) == [i \in 0 .. (Len(seq) - 1) |-> seq[i + 1]]

\* C1: from initializeQuantumState(n), after any sequence of built-in
\* single-qubit gates and CNOTs, the probabilities sum to 1.  (Checked for
\* every state reachable from initializeQuantumState(n), also those reached
\* through measurements.)
C1_Normalized == Sum(getProbabilities(state)) = One
C1_Witness == /\ numQubits = 2 /\ last = CNOTOp(1, 0)
              /\ prev = applySingleQubitGate(
                            applySingleQubitGate(initializeQuantumState(2), gates.Y, 1, 2),
                            gates.H, 0, 2)

\* C2: from initializeQuantumState(2), Hadamard on qubit 0 and then
\* CNOT(control 0, target 1) give the probabilities [0.5, 0, 0, 0.5].
AfterHadamard0 == applySingleQubitGate(initializeQuantumState(2), gates.H, 0, 2)
C2_BellState == (numQubits = 2 /\ prev = AfterHadamard0 /\ last = CNOTOp(0, 1))
                    => getProbabilities(state) = ProbVector(<<Half, Zero, Zero, Half>>)

\* C3: applyCNOTGate returns the input with the amplitudes of every pair of
\* indices that differ in the target bit exchanged where the control bit is
\* 1, and unchanged where it is 0.
CNOTExpected(st, c, t, n) ==
    [i \in DOMAIN st |-> IF BitOf(i, c, n) = 1 THEN st[FlipBit(i, t, n)] ELSE st[i]]
C3_CNOTPermutes == last.type = "cnot"
                      => state = CNOTExpected(prev, last.control, last.target, numQubits)

\* C4: applying applyCNOTGate with the same control and target twice in a
\* row returns the original state vector: after a call on prev, a second
\* call with the same control and target gives prev back.
C4_CNOTTwice == last.type = "cnot"
                   => applyCNOTGate(state, last.control, last.target, numQubits) = prev
C4_Witness == last = CNOTOp(0, 1) /\ prev = Tagged(2)

\* C5: applying X, Y, Z or H to the same qubit twice in a row returns the
\* original state vector: after a call on prev, a second call with the
\* same gate and qubit gives prev back.
SelfInverse == {"X", "Y", "Z", "H"}
C5_GateTwice == last.gate \in SelfInverse
                   => applySingleQubitGate(state, gates[last.gate], last.target,
                                           numQubits) = prev
C5_Witness == last = SingleOp("H", 1) /\ prev = Tagged(2) /\ prev # state

\* C6: the Identity gate returns a state vector equal to its input,
\* amplitude by amplitude.
C6_Identity == last.gate = "I" => \A i \in DOMAIN state : state[i] = prev[i]
C6_Witness == last = SingleOp("I", 1) /\ prev = Tagged(2)

\* C7: from initializeQuantumState(1), Hadamard on qubit 0 gives the
\* probabilities [0.5, 0.5].
C7_Superposition == (numQubits = 1 /\ prev = initializeQuantumState(1)
                        /\ last = SingleOp("H", 0))
                        => getProbabilities(state) = ProbVector(<<Half, Half>>)
C7_Witness == /\ numQubits = 1 /\ prev = initializeQuantumState(1)
              /\ last = SingleOp("H", 0)

\* C8: measuring qubit 0 of the state the Bell circuit produces leaves
\* exactly |00> when the result is 0 and exactly |11> when the result is 1.
BellCircuitOutput == applyCNOTGate(AfterHadamard0, 0, 1, 2)
C8_BellCollapse == (numQubits = 2 /\ prev = BellCircuitOutput
                        /\ last.type = "measure" /\ last.target = 0)
                       => state = BasisState(2, IF last.result = 0 THEN 0 ELSE 3)

\* C9: for a normalized input, measureQubit zeroes every amplitude whose
\* qubit bit differs from the result, divides every other amplitude by the
\* square root of the probability of the result, and returns a vector whose
\* squared magnitudes sum to 1.
CollapseExpected(st, qubit, result, n) ==
    LET root == RSqrt(Marginal(st, qubit, result, n))
    IN [i \in DOMAIN st |-> IF BitOf(i, qubit, n) # result THEN CZero
                            ELSE Cx(RDiv(st[i].real, root), RDiv(st[i].imag, root))]
C9_Collapse == (last.type = "measure" /\ NormSq(prev) = One)
                   => /\ last.result \in {0, 1}
                      /\ state = CollapseExpected(prev, last.target, last.result, numQubits)
                      /\ NormSq(state) = One
C9_Witness == /\ last.type = "measure" /\ last.result = 1
              /\ NormSq(prev) = One
              /\ Marginal(prev, last.target, 1, numQubits) = Half
              /\ \E i \in DOMAIN prev : prev[i].imag # Zero

\* C10: when the probability of the sampled result is 0, measureQubit
\* reports an error instead of returning a newState with NaN amplitudes.
C10_ZeroProbabilityReported ==
    (last.type = "measure" /\ Marginal(prev, last.target, last.result, numQubits) = Zero)
        => (last.error # "none" \/ ~HasNaN(state))

OutOfRange(q) == q < 0 \/ q >= numQubits

ArgOutOfRange(op) == \/ op.type \in {"single", "measure"} /\ OutOfRange(op.target)
                     \/ op.type = "cnot" /\ (OutOfRange(op.control) \/ OutOfRange(op.target))

\* C11: initializeQuantumState returns no vector for a qubit count below 1,
\* and a call of applySingleQubitGate, applyCNOTGate or measureQubit with a
\* qubit index outside [0, numQubits) is rejected with InvalidArgument and
\* returns nothing: the caller's vector is what it was.
C11_ArgumentsRejected ==
    /\ numQubits >= 1
    /\ ArgOutOfRange(last) => last.error = "InvalidArgument" /\ state = prev

\* C12: applyCNOTGate with an in-range control equal to the target is
\* rejected with an error and returns no transformed vector.
C12_SameQubitRejected ==
    (last.type = "cnot" /\ last.control = last.target /\ ~OutOfRange(last.target))
        => last.error # "none" /\ state = prev

\* st has exactly 2^n amplitudes, (1, 0) at index 0 and (0, 0) elsewhere
IsInitialVector(st, n) ==
    /\ DOMAIN st = 0 .. (Pow2(n) - 1)
    /\ Cardinality(DOMAIN st) = Pow2(n)
    /\ st[0] = Cx(Num(1, 0, 0), Num(0, 0, 0))
    /\ \A i \in 1 .. (Pow2(n) - 1) : st[i] = Cx(Num(0, 0, 0), Num(0, 0, 0))

\* C13: for every qubit count n from 1 to 8, initializeQuantumState(n) is a
\* vector of exactly 2^n amplitudes with (1, 0) at index 0 and (0, 0) at
\* every other index; so is the vector a caller holds before its first call.
C13_InitialVector ==
    last.type = "none" =>
        /\ IsInitialVector(state, numQubits)
        /\ \A n \in MinSliderQubits .. MaxSliderQubits :
               IsInitialVector(initializeQuantumState(n), n)

C13_Witness == /\ last.type = "none"
               /\ numQubits = 2
               /\ Length(state) = 4
               /\ state[0] = COne

\* the vector whose amplitude at i is gate[b][0] * st[i with bit p cleared]
\* + gate[b][1] * st[i with bit p set], p = n - 1 - q and b = bit p of i
PairwiseImage(st, gate, q, n) ==
    [i \in 0 .. (Pow2(n) - 1) |->
        LET weight == Pow2(n - 1 - q)
            b == (i \div weight) % 2
            i0 == i - b * weight
            i1 == i0 + weight
        IN complexAdd(complexMultiply(GateEntry(gate, b, 0), st[i0]),
                      complexMultiply(GateEntry(gate, b, 1), st[i1]))]

\* C14: applySingleQubitGate takes qubit q as bit numQubits - 1 - q of the
\* index (qubit 0 is the most significant bit): each output amplitude is the
\* gate row of that bit applied to the two input amplitudes whose indices
\* differ only in that bit.
C14_MSBFirst ==
    (last.type = "single" /\ last.error = "none")
        => state = PairwiseImage(prev, gates[last.gate], last.target, numQubits)

C14_Witness == /\ numQubits = 2
               /\ last = SingleOp("X", 0)
               /\ prev = BasisState(2, 0)
               /\ state = BasisState(2, 2)

C16_QubitCountAndSize ==
    /\ [](/\ numQubits \in 1 .. 8
          /\ DOMAIN state = 0 .. (Pow2(numQubits) - 1)
          /\ Cardinality(DOMAIN state) = Pow2(numQubits))
    /\ [][numQubits' # numQubits =>
               /\ state' = initializeQuantumState(numQubits')
               /\ circuit' = << >>
               /\ measurementResults' = NoResults
               /\ selectedQubit' = Null
               /\ selectedControl' = Null]_vars

C16_Witness == /\ numQubits = 2
               /\ Len(circuit) = 2
               /\ Cardinality(DOMAIN state) = 4

NoMeasurement(ops) == \A k \in 1 .. Len(ops) : ops[k].type # "measure"

ReplayOp(op, st, n) ==
    IF op.type = "single" THEN applySingleQubitGate(st, gates[op.gate], op.target, n)
    ELSE IF op.type = "cnot" THEN applyCNOTGate(st, op.control, op.target, n)
    ELSE st

RECURSIVE Replay(_, _, _)
Replay(ops, st, n) ==
    IF ops = << >> THEN st
    ELSE Replay(Tail(ops), ReplayOp(Head(ops), st, n), n)

\* C20: in QuantumCircuitSimulator, while no measurement has been made since
\* the last reset or qubit-count change, circuit holds one entry per gate
\* applied since then, in the order of application, and applying the entries
\* in that order to initializeQuantumState(numQubits) with
\* applySingleQubitGate and applyCNOTGate gives the current quantumState.
C20_CircuitReplays ==
    NoMeasurement(circuit) =>
        /\ Len(circuit) = calls
        /\ Replay(circuit, initializeQuantumState(numQubits), numQubits) = state

C20_Witness ==
    /\ numQubits = 3
    /\ circuit = <<CircuitSingle("H", 1), CircuitSingle("Z", 1)>>
    /\ state = applySingleQubitGate(
                    applySingleQubitGate(initializeQuantumState(3), GateH, 1, 3),
                    GateZ, 1, 3)
    /\ state # applySingleQubitGate(
                    applySingleQubitGate(initializeQuantumState(3), GateZ, 1, 3),
                    GateH, 1, 3)

\* C19: for a normalized state, an in-range qubit and a draw r in [0, 1),
\* the marginal probabilities of the qubit sum to 1, the result is 0 exactly
\* when r is below the probability of 0 and 1 otherwise, the result has a
\* positive probability in the measured state, and a qubit whose value is
\* definite is measured as that value.
C19_MeasurementOutcome ==
    (last.type = "measure" /\ last.error = "none" /\ NormSq(prev) = One)
        => LET p0 == Marginal(prev, last.target, 0, numQubits)
               p1 == Marginal(prev, last.target, 1, numQubits)
           IN /\ RAdd(p0, p1) = One
              /\ last.result = 0 <=> RLess(last.random, p0)
              /\ last.result = 1 <=> ~RLess(last.random, p0)
              /\ Sign(IF last.result = 0 THEN p0 ELSE p1) > 0
              /\ p0 = One => last.result = 0
              /\ p1 = One => last.result = 1

C19_Witness == /\ last.type = "measure"
               /\ last.random = Half
               /\ Marginal(prev, last.target, 0, numQubits) = Half
               /\ last.result = 1
               /\ NormSq(prev) = One

RECURSIVE Zeros(_)
Zeros(n) == IF n <= 0 THEN "" ELSE "0" \o Zeros(n - 1)

\* C17 as stated: formatQuantumState(initializeQuantumState(n), n) is the
\* all-zero ket label alone, "|0...0>" with n zeros or the literal the
\* function returns when it has no term.
C17_AllZeroLabel ==
    last.type = "none" =>
        \/ stateString = "|" \o Zeros(numQubits) \o "⟩"
        \/ stateString = "|00...0⟩"

\* C17 amended: for every n from 1 to 8,
\* formatQuantumState(initializeQuantumState(n), n) is the single term
\* made of the coefficient 1.000 and the n-digit all-zero ket label.
C17_InitialStateText ==
    last.type = "none" =>
        /\ stateString = "1.000|" \o Zeros(numQubits) \o "⟩"
        /\ \A n \in MinSliderQubits .. MaxSliderQubits :
               formatQuantumState(initializeQuantumState(n), n)
                   = "1.000|" \o Zeros(n) \o "⟩"

C17_Witness == /\ last.type = "none"
               /\ numQubits = 2
               /\ stateString = "1.000|00⟩"

\* C18: formatQuantumState has a term for index i only if the magnitude of
\* amplitude i exceeds 1e-10, every term has a coefficient and the
\* numQubits-digit binary label of its index, and with no term the result is
\* the all-zero literal, never the empty string.
C18_TermsWellFormed ==
    LET terms == FormatTerms(state, numQubits)
    IN /\ \A j \in 1 .. Len(terms) :
             /\ ExceedsThreshold(complexMagnitude(state[terms[j].index]))
             /\ terms[j].amplitudeStr # ""
             /\ Len(terms[j].binaryState) = numQubits
             /\ terms[j].binaryState = padStart(toString2(terms[j].index), numQubits)
       /\ (terms = << >> => stateString = "|00...0⟩")
       /\ stateString # ""

\* C21: in QuantumCircuitSimulator, whenever measurementResults[q] is r, the
\* current quantumState gives qubit q the value r with probability 1, also
\* after the gates, CNOTs and measurements that follow the measurement of q.
C21_IndicatorMatchesState ==
    \A q \in DOMAIN measurementResults :
        Marginal(state, q, measurementResults[q], numQubits) = One

\* draws for a repeated measurement: also draws close to 1
RepeatDraws == RandomDraws \cup {Num(3, 0, 2), Num(1023, 0, 10)}

\* C22: whenever the last call was measureQubit on an in-range qubit q of a
\* normalized state, so that state is the newState it returned and last.result
\* the result it returned, measuring q again on that newState gives the same
\* result for every draw and returns the state it was given.
C22_RepeatedMeasurement ==
    (last.type = "measure" /\ NormSq(prev) = One) =>
        /\ last.target \in Qubits
        /\ \A r2 \in RepeatDraws :
              measureQubit(state, last.target, numQubits, r2)
                  = [result |-> last.result, newState |-> state]

\* qubit 0 of (|00> + |01> + |10> + |11>)/2 was measured as 1 and has just
\* been measured again, with another draw
C22_Witness ==
    LET H0 == applySingleQubitGate(initializeQuantumState(2), GateH, 0, 2)
        H1 == applySingleQubitGate(H0, GateH, 1, 2)
        m1 == measureQubit(H1, 0, 2, Half)
    IN /\ numQubits = 2
       /\ m1.result = 1
       /\ m1.newState # H1
       /\ prev = m1.newState
       /\ last = MeasureOp(0, Zero, 1)
       /\ state = prev

\* C23: in QuantumCircuitSimulator, selectedQubit and selectedControl are each
\* null or an index in [0, numQubits) in every reachable state, also after the
\* qubit count was lowered, and every call of applySingleQubitGate,
\* applyCNOTGate and measureQubit the component made had in-range qubit
\* indices and did not throw.
C23_SelectionsInRange ==
    /\ selectedQubit \in Qubits \cup {Null}
    /\ selectedControl \in Qubits \cup {Null}
    /\ last.type # "none" =>
          /\ last.target \in Qubits
          /\ last.error = "none"
          /\ (last.type = "cnot" => last.control \in Qubits)

\* the count was lowered from 3, both selections were made again and the
\* CNOT button called applyCNOTGate
C23_Witness ==
    /\ numQubits < InitialQubits
    /\ selectedQubit = numQubits - 1
    /\ selectedControl = Null
    /\ last.type = "cnot"
    /\ last.control = 0
    /\ last.target = selectedQubit
    /\ last.control # last.target

\* a request the handler does not apply
Ignored(r) ==
    \/ r.handler = "applySingleGate" /\ r.gate \notin GateNames
    \/ r.handler = "applyCNOT" /\ r.control = r.target

\* C24: in QuantumCircuitSimulator, applySingleGate with a gate name that is
\* not in the gate table and applyCNOT with control equal to target leave
\* quantumState, circuit and measurementResults exactly as they were.
C24_IgnoredRequestFrame ==
    [][Ignored(request') => UNCHANGED <<state, circuit, measurementResults>>]_vars

\* after H on qubit 0, applySingleGate("toString", 0) has
\* thrown and applyCNOT(1, 1) has returned early
C24_Witness ==
    /\ request.handler = "applyCNOT"
    /\ request.control = 1
    /\ request.target = 1
    /\ last.gate = "toString"
    /\ last.error = "TypeError"
    /\ circuit = <<CircuitSingle("H", 0)>>
    /\ state = applySingleQubitGate(initializeQuantumState(numQubits), GateH, 0, numQubits)

\* C25: in QuantumCircuitSimulator, resetCircuit from any reachable state sets
\* quantumState to initializeQuantumState(numQubits), empties circuit and
\* measurementResults, clears selectedQubit and selectedControl, and leaves
\* numQubits unchanged.
C25_ResetRestoresInitial ==
    [][request'.handler = "resetCircuit" =>
           /\ numQubits' = numQubits
           /\ state' = initializeQuantumState(numQubits)
           /\ IsInitialVector(state', numQubits)
           /\ circuit' = << >>
           /\ measurementResults' = NoResults
           /\ selectedQubit' = Null
           /\ selectedControl' = Null]_vars

\* Reset has just been pressed with the qubit count lowered from 3
C25_Witness ==
    /\ request.handler = "resetCircuit"
    /\ numQubits < InitialQubits
    /\ IsInitialVector(state, numQubits)
    /\ circuit = << >>
    /\ DOMAIN measurementResults = {}

\* the layout QuantumVisualizationEngine reads: real part of amplitude i at
\* 2i, imaginary part at 2i + 1
Interleaved(st) ==
    [j \in 0 .. (2 * Length(st) - 1) |->
        IF j % 2 = 0 THEN st[j \div 2].real ELSE st[j \div 2].imag]

\* C26: in every reachable state of QuantumCircuitSimulator, the quantumState
\* handed to QuantumVisualizationEngine is a defined array that holds, for
\* each basis index i below 2^numQubits, the real and imaginary parts of the
\* current amplitude i at positions 2i and 2i + 1.
C26_EngineReceivesState ==
    /\ VisualizationProps.numQubits = numQubits
    /\ VisualizationProps.quantumState.defined
    /\ VisualizationProps.quantumState.array = Interleaved(state)

\* C27: after any sequence of AnalyticsSystem.trackEvent calls the event list
\* never holds more than MAX_EVENTS (10000) events, and the events kept are
\* the most recently tracked ones, in the order they were tracked.
C27_EventsBounded ==
    /\ Len(events) <= MAX_EVENTS
    /\ Len(events) = IF Len(tracked) < MAX_EVENTS THEN Len(tracked) ELSE MAX_EVENTS
    /\ \A i \in 1 .. Len(events) :
          events[i] = tracked[Len(tracked) - Len(events) + i]

\* two events were tracked on top of a full list, and the two oldest are gone
C27_Witness ==
    /\ trackCalls = 2
    /\ Len(tracked) = MAX_EVENTS + 2
    /\ Len(events) = MAX_EVENTS
    /\ events[1].id = 3
    /\ events[MAX_EVENTS].id = MAX_EVENTS + 2
    /\ events[MAX_EVENTS].type = "collaboration"

\* the number of successful submissions, and the highest score given
Successful == scored[0] + scored[50] + scored[99]
Highest == CHOOSE s \in Scores : scored[s] > 0 /\ \A t \in Scores : scored[t] > 0 => t <= s

\* C28: after any sequence of successful submitToChallenge calls on a
\* challenge, topSubmissions has at most 10 entries, is ordered by
\* non-increasing score and contains the highest-scoring of all submissions
\* made so far, and submissions equals the number of successful submissions.
C28_TopSubmissions ==
    /\ Len(topSubmissions) <= 10
    /\ Len(topSubmissions) = IF Successful < 10 THEN Successful ELSE 10
    /\ \A i \in 1 .. (Len(topSubmissions) - 1) :
          topSubmissions[i].score >= topSubmissions[i + 1].score
    /\ Successful > 0 => topSubmissions[1].score = Highest
    /\ \A s \in Scores, i \in 1 .. Len(topSubmissions) :
          topSubmissions[i].score < s => scored[s] < i
    /\ submissions = Successful

\* eleven submissions were scored, the lowest of them last but one; the list
\* is full and no longer holds it
C28_Witness ==
    /\ submissions = 11
    /\ Len(topSubmissions) = 10
    /\ scored[0] = 1
    /\ scored[99] = 1
    /\ scored[50] = 9
    /\ topSubmissions[1].score = 99
    /\ topSubmissions[10].score = 50
    /\ returned = "false"

\* C29: the application state of Home only moves forward in the order
\* landing, loading, app; once handleEnterApp has put it in loading, the
\* LoadingScreen progress rises from 0 in steps of 2 without exceeding 100,
\* onComplete is only started once progress has reached 100 and only fires
\* then, and with timer callbacks running the state eventually becomes app
\* and never returns to landing or loading.
C29_ForwardOnly ==
    /\ [](/\ appState \in {"landing", "loading", "app"}
          /\ progress \in 0 .. 100
          /\ (appState = "landing" => progress = 0 /\ completeTimers = 0)
          /\ (completeTimers > 0 \/ appState = "app" => progress = 100))
    /\ [][/\ appState' # appState =>
                \/ appState = "landing" /\ appState' = "loading" /\ progress' = 0
                \/ appState = "loading" /\ appState' = "app" /\ progress = 100
          /\ progress' # progress => progress' = progress + 2
          /\ completeTimers' > completeTimers => progress' = 100]_vars
    /\ (appState = "loading") ~> (appState = "app")
    /\ [](appState = "app" => [](appState = "app"))

\* the loading screen has counted to 100 and onComplete has put Home in app
C29_Witness ==
    /\ appState = "app"
    /\ progress = 100
    /\ currentStep = 5
    /\ ~interval
    /\ completeTimers = 0

\* C30: in AIChatInterface, handleSubmit ignores a submission while isLoading
\* is true or the input it sees is blank, so at most one request is in
\* flight, and every accepted submission eventually ends with isLoading and
\* isThinking both false, whether the request succeeds, fails or throws
\* part-way through the response stream.
C30_LoadingLock ==
    /\ [](/\ Len(requests) <= 1
          /\ (requests # << >> <=> isLoading)
          /\ (isThinking => isLoading)
          /\ (isLoading => rendered.isLoading))
    /\ [][submitCalls' # submitCalls =>
               /\ isLoading \/ trim(rendered.input) = "" =>
                     /\ submit'.result = "ignored"
                     /\ UNCHANGED <<chatInput, isLoading, isThinking, messages, requests>>
               /\ submit'.result = "accepted" =>
                     /\ ~isLoading
                     /\ requests = << >>
                     /\ requests' = <<"fetching">>
                     /\ isLoading' /\ isThinking']_vars
    /\ isLoading ~> (~isLoading /\ ~isThinking /\ requests = << >>)

\* a submission was accepted, a second one was ignored while the first was
\* in flight, and the stream then threw after the response had begun
C30_Witness ==
    /\ messages = <<UserMessage("hi"), AssistantMessage, ErrorMessage>>
    /\ submit.result = "ignored"
    /\ submit.seen.isLoading
    /\ submitCalls = 2
    /\ ~isLoading
    /\ ~isThinking
    /\ requests = << >>

====
